---- MODULE Spec2Model ----
(***************************************************************************)
(* Verification model of the QCoDeS example notebooks:                     *)
(*   - the browser widget script of the Ithaco notebook (UpdateView and    *)
(*     SubprocessView), modelled as the event handlers it registers;       *)
(*   - the background-sweep wait loop of the Ithaco notebook;              *)
(*   - the cell sequence of the Keysight Infiniium notebook.               *)
(* Strings the script parses are sequences of one-character strings; the   *)
(* text of the output area is the sequence of its lines.                   *)
(***************************************************************************)
EXTENDS Integers, Sequences, FiniteSets, TLC

(***************************************************************************)
(* Bounds of the model.                                                    *)
(***************************************************************************)
NumViews == 2      \* views rendered over the life of the page
MaxLines == 3      \* lines the output area holds before messages stop
MaxTimers == 3     \* interval timers the page creates
MaxSent == 2       \* messages sent to the kernel
LinePx == 250      \* height of one line of output, in pixels
HeaderHeightPx == 30   \* height of the toolbar, in pixels
HeaderWidthPx == 200   \* width of the toolbar, in pixels

(***************************************************************************)
(* Constants of the script and its style sheet.                            *)
(***************************************************************************)
PreMinHeight == 50
PreMaxHeight == 400
PreMinWidth == 400
minVis == 20

Views == 1..NumViews

Max(a, b) == IF a >= b THEN a ELSE b
Min(a, b) == IF a <= b THEN a ELSE b
Clamp(x, lo, hi) == Max(lo, Min(x, hi))

(***************************************************************************)
(* JavaScript string operations, on sequences (0-based results as in JS).  *)
(***************************************************************************)
MatchesAt(s, sub, i) ==
    /\ i + Len(sub) - 1 <= Len(s)
    /\ \A k \in 1..Len(sub) : s[i + k - 1] = sub[k]

indexOf(s, sub) ==
    IF \E i \in 1..Len(s) : MatchesAt(s, sub, i)
    THEN (CHOOSE i \in 1..Len(s) :
             /\ MatchesAt(s, sub, i)
             /\ \A j \in 1..(i - 1) : ~MatchesAt(s, sub, j)) - 1
    ELSE -1

substr(s, start) ==
    IF start < 0
    THEN SubSeq(s, Max(Len(s) + start, 0) + 1, Len(s))
    ELSE SubSeq(s, start + 1, Len(s))

RECURSIVE split(_, _)
split(s, sep) ==
    LET i == indexOf(s, <<sep>>)
    IN  IF i = -1
        THEN <<s>>
        ELSE <<SubSeq(s, 1, i)>> \o split(SubSeq(s, i + 2, Len(s)), sep)

(***************************************************************************)
(* Literals of the script.                                                 *)
(***************************************************************************)
docked == <<"d","o","c","k","e","d">>
floated == <<"f","l","o","a","t","e","d">>
minimized == <<"m","i","n","i","m","i","z","e","d">>
qcodes == <<"q","c","o","d","e","s">>
undefined == <<"undefined">>

btnJsState == <<"b","t","n"," ","j","s","-","s","t","a","t","e"," ">>
minimizedButton == btnJsState \o qcodes \o <<"-">> \o minimized
dockedButton == btnJsState \o qcodes \o <<"-">> \o docked
floatedButton == btnJsState \o qcodes \o <<"-">> \o floated
StateButtons == {minimizedButton, dockedButton, floatedButton}

Measurement == "Measurement"
NoSubprocesses == <<"No", "subprocesses">>

(***************************************************************************)
(* Inputs.                                                                 *)
(***************************************************************************)
Messages == {<<>>, <<"a">>, <<"b">>}
ProcessLists == {<<>>, <<"DataServer", Measurement>>}
Intervals == {0, 1, 2}
InitialWindow == [innerWidth |-> 1000, innerHeight |-> 700]
Windows == {InitialWindow, [innerWidth |-> 300, innerHeight |-> 200]}
DragTargets == {[left |-> 500, top |-> 400]}

VARIABLES
    view,       \* view[v]: the fields and the DOM element of view v
    comm_live,  \* comm_live[v]: the comm of view v's model is live
    window,     \* the browser window's inner size
    timers,     \* timers[t]: the view whose callback timer t runs, 0 when t is not active
    nextTimer,  \* the id the next setInterval call returns
    sent,       \* the messages handed to send(), oldest first
    pending,    \* the view render() has returned for and the front end has yet
                \* to put in the page, 0 when there is none
    shown,      \* shown[v]: the non-empty messages displayed since the last Clear
    last        \* the last event handled, with what the panel was before it

wvars == <<view, comm_live, window, timers, nextTimer, sent, pending, shown, last>>

VARIABLES
    cell,       \* the background-sweep cell being run (1: Time Loop 1, 2: Time Loop 2)
    lpc,        \* where the cell's code is: "run", "sync", "sleep" or "done"
    sweep,      \* the background measurement: running, and the points measured
    data,       \* the points the foreground DataSet holds
    syncResult, \* what the last data.sync() returned
    slept       \* the cell's wait loop has run its body

lvars == <<cell, lpc, sweep, data, syncResult, slept>>

VARIABLES
    npc,        \* the statement of the Keysight notebook to run next
    loopI,      \* the variable i of the for loop
    nPoints,    \* the notebook's variable nPoints
    mso,        \* the settings the oscilloscope holds
    trace,      \* ch4.trace: prepared, and stale once a setting changes after it
    acquired    \* what qc.Measure(...).run() found: the trace's state at the run

svars == <<npc, loopI, nPoints, mso, trace, acquired>>

vars == <<wvars, lvars, svars>>

Unrendered ==
    [rendered |-> FALSE, inDoc |-> FALSE, bound |-> FALSE, state |-> undefined,
     content |-> <<>>, scrollTop |-> 0, clearDisabled |-> FALSE,
     abortDisabled |-> FALSE, subprocessList |-> <<>>,
     draggable |-> FALSE, left |-> <<>>, top |-> <<>>,
     _interval |-> 0, _updater |-> 0]

NoEvent ==
    [op |-> "none", v |-> 0, message |-> <<>>, state |-> undefined,
     bottom |-> FALSE, scroll |-> 0, timer |-> 0, live |-> FALSE,
     button |-> <<>>]

(***************************************************************************)
(* Layout of a panel, as the browser computes it.  The <pre> of a panel   *)
(* that is minimized (display: none) or out of the document has no box:   *)
(* its scrollTop and scrollHeight read 0 and setting scrollTop does        *)
(* nothing.                                                                *)
(***************************************************************************)
Visible(p) == p.inDoc /\ p.state # minimized

clientHeight(p) ==
    IF Visible(p)
    THEN Clamp(LinePx * Len(p.content), PreMinHeight, PreMaxHeight)
    ELSE 0

scrollHeight(p) ==
    IF Visible(p) THEN Max(LinePx * Len(p.content), clientHeight(p)) ELSE 0

maxScrollTop(p) == scrollHeight(p) - clientHeight(p)

AtBottom(p) == p.scrollTop = maxScrollTop(p)

\* outputArea.scrollTop(value)
scrollTop(p, value) == [p EXCEPT !.scrollTop = Clamp(value, 0, maxScrollTop(p))]

\* $el.width(), $el.height()
width(p) ==
    IF ~p.inDoc THEN 0
    ELSE IF p.state = minimized THEN HeaderWidthPx ELSE PreMinWidth

height(p) == IF ~p.inDoc THEN 0 ELSE HeaderHeightPx + clientHeight(p)

\* $el.position(): a floated panel is placed by its explicit left and top
position(p) ==
    IF p.inDoc /\ p.left # <<>> /\ p.top # <<>>
    THEN [left |-> p.left[1], top |-> p.top[1]]
    ELSE [left |-> 0, top |-> 0]

(***************************************************************************)
(* SubprocessView: the .js-state click handler.                            *)
(***************************************************************************)
\* the parse taking the part before the dash
stateOf_firstPart(className) ==
    split(substr(className, indexOf(className, qcodes)), "-")[1]

\* the state a button's className names
stateOf(className) ==
    LET parts == split(substr(className, indexOf(className, qcodes)), "-")
    IN  IF Len(parts) < 2 THEN undefined ELSE split(parts[2], " ")[1]

\* stateOf on the className of each state button of the markup
stateTable == [b \in StateButtons |-> stateOf(b)]

\* the handler without the draggable('destroy') on leaving 'floated'
jsStateClick_noDestroy(me, className, win) ==
    LET attr == [me EXCEPT !.inDoc = TRUE, !.state = stateTable[className]]
        laidOut == scrollTop(attr, attr.scrollTop)
    IN  IF attr.state = floated
        THEN [laidOut EXCEPT
                 !.draggable = TRUE,
                 !.left = <<win.innerWidth - width(laidOut) - 15>>,
                 !.top = <<win.innerHeight - height(laidOut) - 10>>]
        ELSE laidOut

\* the handler without the css({left: '', top: ''}) on leaving 'floated'
jsStateClick_noClear(me, className, win) ==
    LET attr == [me EXCEPT !.inDoc = TRUE, !.state = stateTable[className],
                           !.draggable = FALSE]
        laidOut == scrollTop(attr, attr.scrollTop)
    IN  IF attr.state = floated
        THEN [laidOut EXCEPT
                 !.draggable = TRUE,
                 !.left = <<win.innerWidth - width(laidOut) - 15>>,
                 !.top = <<win.innerHeight - height(laidOut) - 10>>]
        ELSE laidOut

\* the handler writing back the state it read
jsStateClick_oldState(me, className, win) == [me EXCEPT !.inDoc = TRUE]

jsStateClick(me, className, win) ==
    LET oldState == me.state
        state == stateTable[className]
        appended == [me EXCEPT !.inDoc = TRUE]
        destroyed == IF oldState = floated
                     THEN [appended EXCEPT !.draggable = FALSE,
                                           !.left = <<>>, !.top = <<>>]
                     ELSE appended
        attr == [destroyed EXCEPT !.state = state]
        laidOut == scrollTop(attr, attr.scrollTop)
    IN  IF state = undefined THEN me
        ELSE IF oldState = floated /\ ~me.draggable THEN appended
        ELSE IF state = floated
        THEN [laidOut EXCEPT
                 !.draggable = TRUE,
                 !.left = <<win.innerWidth - width(laidOut) - 15>>,
                 !.top = <<win.innerHeight - height(laidOut) - 10>>]
        ELSE laidOut

\* a click() that runs nothing
click_none(me, className, win) == me

\* $el.find('.qcodes-docked').click(): runs the handler while it is bound
click(me, className, win) ==
    IF me.bound THEN jsStateClick(me, className, win) ELSE me

(***************************************************************************)
(* SubprocessView.display                                                  *)
(***************************************************************************)
\* the message put first (prepend for append)
append_front(content, message) == message \o content

\* outputArea.append(message)
append(content, message) == content \o message

\* the scroll target that always follows the output
finalScroll_bottom(initialScroll, scrollBottom, newHeight) == newHeight

\* initialScroll === scrollBottom ? scrollHeight : initialScroll
finalScroll(initialScroll, scrollBottom, newHeight) ==
    IF initialScroll = scrollBottom THEN newHeight ELSE initialScroll

display(me, message, processes, win) ==
    LET initialScroll == me.scrollTop
        atBottom == scrollTop(me, scrollHeight(me))
        scrollBottom == atBottom.scrollTop
        wasMinimized == me.state = minimized
        restored == IF wasMinimized THEN click(atBottom, dockedButton, win)
                    ELSE atBottom
        initialScroll2 == IF wasMinimized THEN scrollBottom ELSE initialScroll
        appended == [restored EXCEPT !.content = append(restored.content, message),
                                     !.clearDisabled = FALSE]
        scrolled == scrollTop(appended,
                              finalScroll(initialScroll2, scrollBottom,
                                          scrollHeight(appended)))
        shownMsg == IF message # <<>> THEN scrolled ELSE me
        procs == IF processes # <<>> THEN processes ELSE NoSubprocesses
    IN  [shownMsg EXCEPT
            !.abortDisabled = (indexOf(procs, <<Measurement>>) = -1),
            !.subprocessList = procs]

(***************************************************************************)
(* UpdateView.setInterval, on a view and the page's timers                 *)
(* tm = [active |-> timers, next |-> nextTimer].                           *)
(***************************************************************************)
clearInterval(tm, id) ==
    IF id \in DOMAIN tm.active
    THEN [tm EXCEPT !.active = [tm.active EXCEPT ![id] = 0]]
    ELSE tm

\* setInterval that leaves the previous timer running
setInterval_keepOld(me, v, tm, newInterval) ==
    IF newInterval = me._interval THEN [me |-> me, tm |-> tm]
    ELSE IF newInterval # 0
         THEN [me |-> [me EXCEPT !._interval = newInterval, !._updater = tm.next],
               tm |-> [active |-> [tm.active EXCEPT ![tm.next] = v],
                       next |-> tm.next + 1]]
         ELSE [me |-> [me EXCEPT !._interval = newInterval], tm |-> tm]

setInterval(me, v, tm, newInterval) ==
    IF newInterval = me._interval THEN [me |-> me, tm |-> tm]
    ELSE LET cleared == IF me._updater # 0 THEN clearInterval(tm, me._updater)
                        ELSE tm
         IN  IF newInterval # 0
             THEN [me |-> [me EXCEPT !._interval = newInterval,
                                     !._updater = cleared.next],
                   tm |-> [active |-> [cleared.active EXCEPT ![cleared.next] = v],
                           next |-> cleared.next + 1]]
             ELSE [me |-> [me EXCEPT !._interval = newInterval], tm |-> cleared]

\* whether the call creates a timer
NeedsTimer(me, newInterval) == newInterval # me._interval /\ newInterval # 0

\* UpdateView.update, for a SubprocessView
update(me, v, tm, message, processes, interval, win) ==
    setInterval(display(me, message, processes, win), v, tm, interval)

(***************************************************************************)
(* SubprocessView.render and the other handlers it registers.              *)
(***************************************************************************)
\* render() without the removal
removeOthers_none(vs, v) == vs

\* $('.qcodes-output-view').not(me.$el).remove(): every other panel in the
\* document leaves it, and jQuery drops the handlers bound on its elements
removeOthers(vs, v) ==
    [w \in Views |->
        IF w # v /\ vs[w].rendered /\ vs[w].inDoc
        THEN [vs[w] EXCEPT !.inDoc = FALSE, !.bound = FALSE, !.scrollTop = 0]
        ELSE vs[w]]

\* the element after addClass, attr and html, with the handlers bound
rendered == [Unrendered EXCEPT !.rendered = TRUE, !.bound = TRUE,
                               !.state = docked, !.clearDisabled = TRUE,
                               !.abortDisabled = TRUE]

\* the handler without the addClass('disabled')
clearClick_noMark(me) == scrollTop([me EXCEPT !.content = <<>>], me.scrollTop)

\* clearButton click handler
clearClick(me) ==
    scrollTop([me EXCEPT !.content = <<>>, !.clearDisabled = TRUE], me.scrollTop)

\* the handler clamping to the window's edge, without minVis
resize_noMinVis(me, win) ==
    IF me.state = floated
    THEN LET pos == position(me)
         IN  [me EXCEPT
                 !.left = IF pos.left > win.innerWidth
                          THEN <<win.innerWidth>> ELSE @,
                 !.top = IF pos.top > win.innerHeight
                         THEN <<win.innerHeight>> ELSE @]
    ELSE me

\* $(window).resize handler
resize(me, win) ==
    IF me.state = floated
    THEN LET pos == position(me)
             maxLeft == win.innerWidth - minVis
             maxTop == win.innerHeight - minVis
         IN  [me EXCEPT !.left = IF pos.left > maxLeft THEN <<maxLeft>> ELSE @,
                        !.top = IF pos.top > maxTop THEN <<maxTop>> ELSE @]
    ELSE me

\* the timer callback of view me
timerCallback(me, tm, live) ==
    IF ~live THEN clearInterval(tm, me._updater) ELSE tm

Timers == [active |-> timers, next |-> nextTimer]

ScrollTargets(p) ==
    {0, maxScrollTop(p)} \cup {y \in {LinePx * k : k \in 1..MaxLines} : y <= maxScrollTop(p)}

\* the record of an event on view v; an update also records the message and
\* the panel it found, a click the button and the state it found, a clear the
\* content it found
Event(op, v) == [NoEvent EXCEPT !.op = op, !.v = v]

ClickEvent(v, className) ==
    [Event("click", v) EXCEPT !.button = className, !.state = view[v].state]

UpdateEvent(op, v, message) ==
    [Event(op, v) EXCEPT !.message = message, !.state = view[v].state,
                         !.bottom = AtBottom(view[v]),
                         !.scroll = IF AtBottom(view[v]) THEN 0
                                    ELSE view[v].scrollTop]

(***************************************************************************)
(* Actions of the widget script.                                           *)
(***************************************************************************)
WInit ==
    /\ view = [v \in Views |-> Unrendered]
    /\ comm_live = [v \in Views |-> TRUE]
    /\ window = InitialWindow
    /\ timers = [t \in 1..MaxTimers |-> 0]
    /\ nextTimer = 1
    /\ sent = <<>>
    /\ pending = 0
    /\ shown = [v \in Views |-> <<>>]
    /\ last = NoEvent

\* the front end creates view v and calls render(); the element is not in the
\* page yet
Render(v, message, processes, interval) ==
    /\ pending = 0
    /\ ~view[v].rendered
    /\ \A w \in Views : w < v => view[w].rendered
    /\ NeedsTimer(rendered, interval) => nextTimer <= MaxTimers
    /\ LET others == removeOthers(view, v)
           up == update(rendered, v, Timers, message, processes, interval, window)
       IN  /\ view' = [others EXCEPT ![v] = up.me]
           /\ timers' = up.tm.active
           /\ nextTimer' = up.tm.next
    /\ pending' = v
    /\ shown' = [shown EXCEPT ![v] = message]
    /\ last' = [Event("render", v) EXCEPT !.message = message, !.state = docked,
                                          !.bottom = TRUE]
    /\ UNCHANGED <<comm_live, window, sent, lvars, svars>>

\* render() has returned: the front end puts the element in the widget area
\* of the cell, before any other event is handled
Attach ==
    /\ pending # 0
    /\ view' = [view EXCEPT ![pending].inDoc = TRUE]
    /\ pending' = 0
    /\ last' = Event("attach", pending)
    /\ UNCHANGED <<comm_live, window, timers, nextTimer, sent, shown, lvars, svars>>

\* the model of view v changes: Backbone calls update()
Update(v, message, processes, interval) ==
    /\ pending = 0
    /\ view[v].rendered
    /\ comm_live[v]
    /\ Len(view[v].content) + Len(message) <= MaxLines
    /\ NeedsTimer(view[v], interval) => nextTimer <= MaxTimers
    /\ LET up == update(view[v], v, Timers, message, processes, interval, window)
       IN  /\ view' = [view EXCEPT ![v] = up.me]
           /\ timers' = up.tm.active
           /\ nextTimer' = up.tm.next
    /\ shown' = [shown EXCEPT ![v] = @ \o message]
    /\ last' = UpdateEvent("update", v, message)
    /\ UNCHANGED <<comm_live, window, sent, pending, lvars, svars>>

\* the user clicks a state button; the button of the current state is hidden
\* (display: none).  Moving the element to the end of <body> may or may not
\* keep the scroll offset of its <pre>.
StateClick(v, className, keepScroll) ==
    /\ pending = 0
    /\ view[v].rendered /\ view[v].inDoc /\ view[v].bound
    /\ stateTable[className] # view[v].state
    /\ LET p == jsStateClick(view[v], className, window)
       IN  view' = [view EXCEPT ![v] = IF keepScroll THEN p ELSE scrollTop(p, 0)]
    /\ last' = ClickEvent(v, className)
    /\ UNCHANGED <<comm_live, window, timers, nextTimer, sent, shown, pending, lvars, svars>>

\* .click() triggered on a state button, shown or hidden: the handler runs
\* whatever the state of the panel
TriggerClick(v, className, keepScroll) ==
    /\ pending = 0
    /\ view[v].rendered /\ view[v].inDoc /\ view[v].bound
    /\ LET p == jsStateClick(view[v], className, window)
       IN  view' = [view EXCEPT ![v] = IF keepScroll THEN p ELSE scrollTop(p, 0)]
    /\ last' = ClickEvent(v, className)
    /\ UNCHANGED <<comm_live, window, timers, nextTimer, sent, shown, pending, lvars, svars>>

\* the user clicks Clear (hidden with the content while minimized)
ClearClick(v) ==
    /\ pending = 0
    /\ view[v].rendered /\ view[v].inDoc /\ view[v].bound
    /\ view[v].state # minimized
    /\ view' = [view EXCEPT ![v] = clearClick(@)]
    /\ shown' = [shown EXCEPT ![v] = <<>>]
    /\ last' = [Event("clear", v) EXCEPT !.message = view[v].content]
    /\ UNCHANGED <<comm_live, window, timers, nextTimer, sent, pending, lvars, svars>>

\* the user clicks Abort
AbortClick(v) ==
    /\ pending = 0
    /\ view[v].rendered /\ view[v].inDoc /\ view[v].bound
    /\ Len(sent) < MaxSent
    /\ sent' = Append(sent, "abort")
    /\ last' = Event("abort", v)
    /\ UNCHANGED <<view, comm_live, window, timers, nextTimer, shown, pending, lvars, svars>>

\* the user scrolls the output area
Scroll(v, y) ==
    /\ pending = 0
    /\ view[v].rendered /\ Visible(view[v])
    /\ y \in ScrollTargets(view[v])
    /\ y # view[v].scrollTop
    /\ view' = [view EXCEPT ![v] = scrollTop(@, y)]
    /\ last' = Event("scroll", v)
    /\ UNCHANGED <<comm_live, window, timers, nextTimer, sent, shown, pending, lvars, svars>>

\* the user drags a floated panel
Drag(v, to) ==
    /\ pending = 0
    /\ view[v].rendered /\ view[v].inDoc /\ view[v].draggable
    /\ position(view[v]) # to
    /\ view' = [view EXCEPT ![v].left = <<to.left>>, ![v].top = <<to.top>>]
    /\ last' = Event("drag", v)
    /\ UNCHANGED <<comm_live, window, timers, nextTimer, sent, shown, pending, lvars, svars>>

\* the window is resized: the resize handler of every rendered view runs
Resize(win) ==
    /\ pending = 0
    /\ win # window
    /\ \E v \in Views : view[v].rendered
    /\ window' = win
    /\ view' = [v \in Views |->
                   IF view[v].rendered THEN resize(view[v], win) ELSE view[v]]
    /\ last' = [NoEvent EXCEPT !.op = "resize"]
    /\ UNCHANGED <<comm_live, timers, nextTimer, sent, shown, pending, lvars, svars>>

\* the kernel goes away: the comm of every model created so far is dead
KernelRestart ==
    /\ pending = 0
    /\ \E v \in Views : view[v].rendered /\ comm_live[v]
    /\ comm_live' = [v \in Views |-> comm_live[v] /\ ~view[v].rendered]
    /\ last' = [NoEvent EXCEPT !.op = "restart"]
    /\ UNCHANGED <<view, window, timers, nextTimer, sent, shown, pending, lvars, svars>>

\* interval timer t fires
Tick(t) ==
    /\ pending = 0
    /\ timers[t] # 0
    /\ Len(sent) < MaxSent
    /\ sent' = Append(sent, "myupdate")
    /\ LET v == timers[t]
           tm == timerCallback(view[v], Timers, comm_live[v])
       IN  /\ timers' = tm.active
           /\ last' = [Event("tick", v) EXCEPT !.timer = t, !.live = comm_live[v]]
    /\ UNCHANGED <<view, comm_live, window, nextTimer, shown, pending, lvars, svars>>

\* UpdateView.remove
Remove(v) ==
    /\ pending = 0
    /\ view[v].rendered
    /\ view[v]._updater # 0 /\ timers[view[v]._updater] # 0
    /\ timers' = clearInterval(Timers, view[v]._updater).active
    /\ last' = Event("remove", v)
    /\ UNCHANGED <<view, comm_live, window, nextTimer, sent, shown, pending, lvars, svars>>

(***************************************************************************)
(* The background-sweep cells of the Ithaco notebook:                      *)
(*     data = qc.Loop(k1.volt[-5:5:1], 0).each(...).run(...)               *)
(*     while data.sync():                                                  *)
(*         time.sleep(0.1)                                                 *)
(***************************************************************************)
\* the values of a parameter slice first:stop:step
RECURSIVE SweepValues(_, _, _)
SweepValues(first, stop, step) ==
    IF first >= stop THEN <<>>
    ELSE <<first>> \o SweepValues(first + step, stop, step)

SweepLength == Len(SweepValues(-5, 5, 1))

\* DataSet.sync(): fetches the points measured so far and tells whether the
\* measurement is still running
sync(sw) == [data |-> sw.measured, result |-> sw.running]

\* the loop leaving after its first test
whileSync_once(result) == "done"

\* the test of the while loop on what sync() returned
whileSync(result) == IF result THEN "sleep" ELSE "done"

LInit ==
    /\ cell = 1
    /\ lpc = "run"
    /\ sweep = [running |-> FALSE, measured |-> 0]
    /\ data = 0
    /\ syncResult = FALSE
    /\ slept = FALSE

\* Loop(...).run(): the measurement starts in the background
LoopRun ==
    /\ lpc = "run"
    /\ sweep' = [running |-> TRUE, measured |-> 0]
    /\ data' = 0
    /\ slept' = FALSE
    /\ lpc' = "sync"
    /\ UNCHANGED <<cell, syncResult, wvars, svars>>

\* the background process measures the next point of the sweep
MeasurePoint ==
    /\ sweep.running
    /\ sweep.measured < SweepLength
    /\ sweep' = [sweep EXCEPT !.measured = @ + 1]
    /\ UNCHANGED <<cell, lpc, data, syncResult, slept, wvars, svars>>

\* the background process ends after the last point
SweepFinished ==
    /\ sweep.running
    /\ sweep.measured = SweepLength
    /\ sweep' = [sweep EXCEPT !.running = FALSE]
    /\ UNCHANGED <<cell, lpc, data, syncResult, slept, wvars, svars>>

\* while data.sync():
WhileSync ==
    /\ lpc = "sync"
    /\ LET r == sync(sweep)
       IN  /\ data' = r.data
           /\ syncResult' = r.result
           /\ lpc' = whileSync(r.result)
    /\ UNCHANGED <<cell, sweep, slept, wvars, svars>>

\* time.sleep(0.1)
Sleep ==
    /\ lpc = "sleep"
    /\ lpc' = "sync"
    /\ slept' = TRUE
    /\ UNCHANGED <<cell, sweep, data, syncResult, wvars, svars>>

\* the next cell ('Time Loop 2') is run
NextCell ==
    /\ lpc = "done"
    /\ cell = 1
    /\ cell' = 2
    /\ lpc' = "run"
    /\ UNCHANGED <<sweep, data, syncResult, slept, wvars, svars>>

Foreground == LoopRun \/ WhileSync \/ Sleep \/ NextCell

(***************************************************************************)
(* The Keysight Infiniium notebook, from the 'Prepare Trace' cell on.      *)
(* Times are in microseconds, voltages in millivolts, sample rates in      *)
(* thousands of samples per second.                                        *)
(***************************************************************************)
RECURSIVE Pow10(_)
Pow10(n) == IF n = 0 THEN 1 ELSE 10 * Pow10(n - 1)

\* the literal <m>e<e>, in seconds, as microseconds
us(m, e) == m * Pow10(e + 6)
\* a literal in volts given in tenths, as millivolts
mV(tenths) == tenths * 100

\* range(n) of the for loop
range(n) == [first |-> 0, stop |-> n]
\* the loop written as range(1, 4)
forRange_from1 == [first |-> 1, stop |-> 4]

forRange == range(4)

\* mso.channels[i] is channel i + 1
channels(i) == i + 1

\* the quotient taken the wrong way round
sampleRate_inverted(points, timebase_range) == (timebase_range * 1000) \div points

\* nPoints / mso.timebase_range(), in thousands of samples per second
sampleRate(points, timebase_range) == (points * 1000) \div timebase_range

\* the input signal of the waveform generator: a 100 kHz sine wave
SignalHz == 100000

\* one period of a signal of hz hertz, in microseconds
period(hz) == 1000000 \div hz

\* the statements of the code cells, each with the number of its cell
\* the cells with prepare_curvedata() run before the acquisition settings
Notebook_prepareFirst == <<
    [cellNo |-> 4, op |-> "for", param |-> "display", value |-> FALSE],
    [cellNo |-> 4, op |-> "display", ch |-> 4, value |-> TRUE],
    [cellNo |-> 4, op |-> "set", param |-> "timebase_range", value |-> us(10, -3)],
    [cellNo |-> 4, op |-> "set", param |-> "timebase_position", value |-> us(5, -3)],
    [cellNo |-> 4, op |-> "set", param |-> "ch4_range", value |-> mV(12)],
    [cellNo |-> 5, op |-> "set", param |-> "trigger_enabled", value |-> TRUE],
    [cellNo |-> 5, op |-> "set", param |-> "trigger_edge_source", value |-> "CHANnel4"],
    [cellNo |-> 5, op |-> "set", param |-> "trigger_edge_slope", value |-> "negative"],
    [cellNo |-> 5, op |-> "set", param |-> "ch4_trigger_level", value |-> mV(4)],
    [cellNo |-> 6, op |-> "prepare"],
    [cellNo |-> 7, op |-> "assign", value |-> 100000],
    [cellNo |-> 7, op |-> "set_points"],
    [cellNo |-> 7, op |-> "set_rate"],
    [cellNo |-> 8, op |-> "measure"],
    [cellNo |-> 9, op |-> "plot"] >>

Notebook == <<
    [cellNo |-> 4, op |-> "for", param |-> "display", value |-> FALSE],
    [cellNo |-> 4, op |-> "display", ch |-> 4, value |-> TRUE],
    [cellNo |-> 4, op |-> "set", param |-> "timebase_range", value |-> us(10, -3)],
    [cellNo |-> 4, op |-> "set", param |-> "timebase_position", value |-> us(5, -3)],
    [cellNo |-> 4, op |-> "set", param |-> "ch4_range", value |-> mV(12)],
    [cellNo |-> 5, op |-> "set", param |-> "trigger_enabled", value |-> TRUE],
    [cellNo |-> 5, op |-> "set", param |-> "trigger_edge_source", value |-> "CHANnel4"],
    [cellNo |-> 5, op |-> "set", param |-> "trigger_edge_slope", value |-> "negative"],
    [cellNo |-> 5, op |-> "set", param |-> "ch4_trigger_level", value |-> mV(4)],
    [cellNo |-> 6, op |-> "assign", value |-> 100000],
    [cellNo |-> 6, op |-> "set_points"],
    [cellNo |-> 6, op |-> "set_rate"],
    [cellNo |-> 7, op |-> "prepare"],
    [cellNo |-> 8, op |-> "measure"],
    [cellNo |-> 9, op |-> "plot"] >>

\* the notebook has run every statement of cell n
AfterCell(n) == npc \notin DOMAIN Notebook \/ Notebook[npc].cellNo > n

\* the settings the acquired trace depends on
AcquisitionSettings ==
    {"acquire_points", "acquire_sample_rate", "timebase_range",
     "timebase_position", "ch4_range"}

\* a parameter is set on the instrument
setParam(scope, param, value) == [scope EXCEPT ![param] = value]

\* a prepared trace is stale once a setting it depends on is written
touch(tr, param) ==
    IF param \in AcquisitionSettings /\ tr.prepared
    THEN [tr EXCEPT !.stale = TRUE] ELSE tr

PowerOn ==
    [display |-> [c \in 1..4 |-> TRUE], timebase_range |-> us(1, -3),
     timebase_position |-> 0, ch4_range |-> mV(80),
     trigger_enabled |-> FALSE, trigger_edge_source |-> "CHANnel1",
     trigger_edge_slope |-> "positive", ch4_trigger_level |-> 0,
     acquire_points |-> 1000, acquire_sample_rate |-> 1000]

InitialScopes ==
    {[PowerOn EXCEPT !.display = d, !.timebase_range = r, !.trigger_enabled = t] :
        d \in [1..4 -> BOOLEAN], r \in {us(1, -3), us(20, -3)}, t \in BOOLEAN}

SIdle ==
    /\ npc = 1
    /\ loopI = forRange.first
    /\ nPoints = 0
    /\ mso = PowerOn
    /\ trace = [prepared |-> FALSE, stale |-> FALSE]
    /\ acquired = <<>>

SInit ==
    /\ npc = 1
    /\ loopI = forRange.first
    /\ nPoints = 0
    /\ mso \in InitialScopes
    /\ trace = [prepared |-> FALSE, stale |-> FALSE]
    /\ acquired = <<>>

Stmt == IF npc \in DOMAIN Notebook THEN Notebook[npc] ELSE [op |-> "end"]

\* for i in range(4): mso.channels[i].display(False)   (one iteration)
ForDisplay ==
    /\ Stmt.op = "for"
    /\ IF loopI < forRange.stop
       THEN /\ mso' = [mso EXCEPT !.display[channels(loopI)] = Stmt.value]
            /\ loopI' = loopI + 1
            /\ npc' = npc
       ELSE /\ npc' = npc + 1
            /\ UNCHANGED <<mso, loopI>>
    /\ UNCHANGED <<nPoints, trace, acquired, wvars, lvars>>

\* mso.ch4.display(True)
SetDisplay ==
    /\ Stmt.op = "display"
    /\ mso' = [mso EXCEPT !.display[Stmt.ch] = Stmt.value]
    /\ npc' = npc + 1
    /\ UNCHANGED <<loopI, nPoints, trace, acquired, wvars, lvars>>

\* mso.<parameter>(<literal>)
SetParameter ==
    /\ Stmt.op = "set"
    /\ mso' = setParam(mso, Stmt.param, Stmt.value)
    /\ trace' = touch(trace, Stmt.param)
    /\ npc' = npc + 1
    /\ UNCHANGED <<loopI, nPoints, acquired, wvars, lvars>>

\* nPoints = 100000;
AssignPoints ==
    /\ Stmt.op = "assign"
    /\ nPoints' = Stmt.value
    /\ npc' = npc + 1
    /\ UNCHANGED <<loopI, mso, trace, acquired, wvars, lvars>>

\* mso.acquire_points(nPoints)
SetPoints ==
    /\ Stmt.op = "set_points"
    /\ mso' = setParam(mso, "acquire_points", nPoints)
    /\ trace' = touch(trace, "acquire_points")
    /\ npc' = npc + 1
    /\ UNCHANGED <<loopI, nPoints, acquired, wvars, lvars>>

\* mso.acquire_sample_rate(nPoints/mso.timebase_range())
SetSampleRate ==
    /\ Stmt.op = "set_rate"
    /\ mso' = setParam(mso, "acquire_sample_rate",
                       sampleRate(nPoints, mso.timebase_range))
    /\ trace' = touch(trace, "acquire_sample_rate")
    /\ npc' = npc + 1
    /\ UNCHANGED <<loopI, nPoints, acquired, wvars, lvars>>

\* mso.ch4.trace.prepare_curvedata()
Prepare ==
    /\ Stmt.op = "prepare"
    /\ trace' = [prepared |-> TRUE, stale |-> FALSE]
    /\ npc' = npc + 1
    /\ UNCHANGED <<loopI, nPoints, mso, acquired, wvars, lvars>>

\* data = qc.Measure(mso.ch4.trace).run()
Measure ==
    /\ Stmt.op = "measure"
    /\ acquired' = <<[trace |-> trace, settings |-> mso]>>
    /\ npc' = npc + 1
    /\ UNCHANGED <<loopI, nPoints, mso, trace, wvars, lvars>>

\* plot = qc.MatPlot(data.arrays['MSO_chan4_trace'])
Plot ==
    /\ Stmt.op = "plot"
    /\ npc' = npc + 1
    /\ UNCHANGED <<loopI, nPoints, mso, trace, acquired, wvars, lvars>>

(***************************************************************************)
(* Specifications.  Each draws the inputs of the same handlers from the    *)
(* sets that exercise one part of the script.                              *)
(*   Spec       one panel: messages, process lists, clicks, scrolling,     *)
(*              dragging and window resizes;                               *)
(*   SpecViews  several views rendered one after the other (the widget is  *)
(*              displayed again, or the kernel restarts);                  *)
(*   SpecTimer  the polling timers of the views;                           *)
(*   SpecClick  one panel whose state buttons are clicked whether shown    *)
(*              or hidden;                                                 *)
(*   SpecLoop   the background-sweep cells, the foreground being scheduled *)
(*              whenever it can run;                                       *)
(*   SpecScope  the Keysight notebook, from any state of the scope.        *)
(***************************************************************************)
FirstView == {1}
ShortMessages == {<<>>, <<"a">>}
NoProcesses == {<<>>}
NoInterval == {0}

Next ==
    \/ \E v \in FirstView, m \in Messages, p \in ProcessLists, i \in NoInterval :
          Render(v, m, p, i)
    \/ Attach
    \/ \E v \in FirstView, m \in Messages, p \in ProcessLists, i \in NoInterval :
          Update(v, m, p, i)
    \/ \E v \in FirstView, b \in StateButtons, k \in BOOLEAN : StateClick(v, b, k)
    \/ \E v \in FirstView : ClearClick(v)
    \/ \E v \in FirstView : AbortClick(v)
    \/ \E v \in FirstView : \E y \in ScrollTargets(view[v]) : Scroll(v, y)
    \/ \E v \in FirstView, to \in DragTargets : Drag(v, to)
    \/ \E win \in Windows : Resize(win)
    \/ KernelRestart

Init == WInit /\ LInit /\ SIdle

Spec == Init /\ [][Next]_vars

ViewsNext ==
    \/ \E v \in Views, m \in ShortMessages, p \in NoProcesses, i \in NoInterval :
          Render(v, m, p, i)
    \/ Attach
    \/ \E v \in Views, m \in ShortMessages, p \in NoProcesses, i \in NoInterval :
          Update(v, m, p, i)
    \/ \E v \in Views, b \in StateButtons, k \in BOOLEAN : StateClick(v, b, k)
    \/ KernelRestart

SpecViews == Init /\ [][ViewsNext]_vars

TimerNext ==
    \/ \E v \in Views, m \in {<<>>}, p \in NoProcesses, i \in Intervals :
          Render(v, m, p, i)
    \/ Attach
    \/ \E v \in Views, m \in {<<>>}, p \in NoProcesses, i \in Intervals :
          Update(v, m, p, i)
    \/ KernelRestart
    \/ \E t \in 1..MaxTimers : Tick(t)
    \/ \E v \in Views : Remove(v)

SpecTimer == Init /\ [][TimerNext]_vars

ClickNext ==
    \/ \E v \in FirstView, m \in Messages, p \in ProcessLists, i \in NoInterval :
          Render(v, m, p, i)
    \/ Attach
    \/ \E v \in FirstView, m \in Messages, p \in ProcessLists, i \in NoInterval :
          Update(v, m, p, i)
    \/ \E v \in FirstView, b \in StateButtons, k \in BOOLEAN : TriggerClick(v, b, k)
    \/ \E v \in FirstView : ClearClick(v)
    \/ \E v \in FirstView, to \in DragTargets : Drag(v, to)
    \/ \E win \in Windows : Resize(win)

SpecClick == Init /\ [][ClickNext]_vars

LoopNext ==
    \/ LoopRun
    \/ MeasurePoint
    \/ SweepFinished
    \/ WhileSync
    \/ Sleep
    \/ NextCell

SpecLoop == Init /\ [][LoopNext]_vars /\ WF_vars(Foreground)

ScopeInit == WInit /\ LInit /\ SInit

ScopeNext ==
    \/ ForDisplay
    \/ SetDisplay
    \/ SetParameter
    \/ AssignPoints
    \/ SetPoints
    \/ SetSampleRate
    \/ Prepare
    \/ Measure
    \/ Plot

SpecScope == ScopeInit /\ [][ScopeNext]_vars

(***************************************************************************)
(* Properties.                                                             *)
(***************************************************************************)
States == {docked, floated, minimized}
DisplayCalled == last.op \in {"update", "render"} /\ last.message # <<>>
MSps(n) == n * 1000

\* C1: the panel's qcodes-state is 'docked' right after render() and, after
\* any sequence of state clicks, messages, clear/abort clicks and resizes,
\* one of 'docked', 'floated', 'minimized'.
C1_StateIsOneOfThree ==
    /\ \A v \in Views : view[v].rendered => view[v].state \in States
    /\ last.op = "render" => view[last.v].state = docked

C1_Witness ==
    /\ last.op = "resize"
    /\ view[1].state = floated
    /\ view[1].content # <<>>
    /\ sent # <<>>

\* C2: every tick of a polling timer hands exactly one myupdate message to
\* send(), and a tick that finds the comm not live cancels its own timer, which
\* never runs again.
C2_TickSendsOnceAndCancels ==
    [][/\ last'.op = "tick" =>
             /\ sent' = Append(sent, "myupdate")
             /\ ~last'.live => timers'[last'.timer] = 0
       /\ \A t \in 1..MaxTimers :
             (t < nextTimer /\ timers[t] = 0) => timers'[t] = 0]_vars

C2_Witness ==
    /\ last.op = "tick"
    /\ ~last.live
    /\ timers[last.timer] = 0
    /\ last.timer > 1
    /\ sent = <<"myupdate", "myupdate">>

\* C3: the output area holds the non-empty messages displayed since the last
\* Clear, concatenated in the order they came; an empty message changes
\* nothing of it.
C3_OutputIsConcatenation ==
    \A v \in Views : view[v].rendered => view[v].content = shown[v]

C3_Witness ==
    /\ last.op = "update"
    /\ last.message = <<>>
    /\ view[1].content = <<"a", "b">>

\* C4 as claimed: a non-empty message displayed while the panel is minimized
\* leaves the panel docked and scrolled to the bottom.
C4_MinimizedIsRestored ==
    (last.op = "update" /\ last.message # <<>> /\ last.state = minimized) =>
        /\ view[last.v].state = docked
        /\ AtBottom(view[last.v])

\* C4, amended: a non-empty message displayed while the panel is minimized and
\* has not been removed from the document by the render() of another view
\* leaves the panel docked, with the message at the end of the output and the
\* output scrolled to the bottom.
C4_MinimizedIsRestoredUnlessRemoved ==
    (/\ last.op = "update" /\ last.message # <<>> /\ last.state = minimized
     /\ view[last.v].bound) =>
        /\ view[last.v].state = docked
        /\ view[last.v].inDoc
        /\ AtBottom(view[last.v])
        /\ view[last.v].content # <<>>
        /\ view[last.v].content[Len(view[last.v].content)] = last.message[1]

C4_Witness ==
    /\ last.op = "update" /\ last.message # <<>> /\ last.state = minimized
    /\ view[last.v].bound
    /\ view[last.v].state = docked
    /\ view[last.v].scrollTop > 0

\* C5: a non-empty message displayed while the panel is not minimized leaves
\* the output at its new bottom when it was at the bottom, and at the scroll
\* position it had otherwise.
C5_ScrollFollowsOrStays ==
    (DisplayCalled /\ last.state # minimized) =>
        IF last.bottom
        THEN AtBottom(view[last.v])
        ELSE view[last.v].scrollTop = last.scroll

C5_Witness ==
    /\ last.op = "update" /\ last.message # <<>> /\ last.state # minimized
    /\ ~last.bottom
    /\ view[last.v].scrollTop = last.scroll
    /\ ~AtBottom(view[last.v])

\* C6: after a render() no other output panel is in the document: at most one
\* panel is in it, the one rendered last.
C6_OnePanelInDocument ==
    LET panels == {v \in Views : view[v].rendered /\ view[v].inDoc}
    IN  /\ Cardinality(panels) <= 1
        /\ \A v \in panels : \A w \in Views : view[w].rendered => w <= v
        /\ last.op = "render" => panels = {}
        /\ last.op = "attach" => panels = {last.v}

C6_Witness ==
    /\ view[1].rendered /\ ~view[1].inDoc
    /\ view[2].rendered /\ view[2].inDoc
    /\ last.op = "update" /\ last.v = 1 /\ last.state = minimized
    /\ last.message # <<>>

\* C7: the wait loop is left only when sync() returned a false value, and it
\* is left once the background measurement has finished.
C7_WaitLoop ==
    /\ [](lpc = "done" => ~syncResult)
    /\ ((lpc \in {"sync", "sleep"} /\ ~sweep.running) ~> (lpc = "done"))

C7_Witness ==
    /\ cell = 2
    /\ lpc = "done"
    /\ slept
    /\ data = SweepLength

\* C8: the trace is acquired prepared, with no acquisition setting written
\* between prepare_curvedata() and run().
C8_PreparedBeforeAcquisition ==
    acquired # <<>> =>
        /\ acquired[1].trace.prepared
        /\ ~acquired[1].trace.stale

C8_Witness ==
    /\ acquired # <<>>
    /\ acquired[1].trace.prepared
    /\ acquired[1].settings.acquire_points = 100000
    /\ acquired[1].settings.ch4_range = mV(12)

\* C9: once the 'Prepare Trace' cell has run, channel 4 is displayed and
\* channels 1 to 3 are hidden.
C9_OnlyChannel4Displayed ==
    AfterCell(4) =>
        /\ mso.display[4]
        /\ \A c \in 1..3 : ~mso.display[c]

C9_Witness ==
    /\ AfterCell(4)
    /\ npc \in DOMAIN Notebook /\ Notebook[npc].cellNo = 5
    /\ mso.display = [c \in 1..4 |-> c = 4]

\* C10: the sample rate written is the number of points divided by the
\* timebase range the scope holds, 10 MS/s for the notebook's values.
C10_SampleRate ==
    AfterCell(6) =>
        /\ mso.acquire_sample_rate * mso.timebase_range = nPoints * 1000
        /\ mso.acquire_points = 100000
        /\ mso.timebase_range = us(10, -3)
        /\ mso.acquire_sample_rate = MSps(10)

C10_Witness ==
    /\ AfterCell(6)
    /\ mso.acquire_sample_rate = MSps(10)
    /\ nPoints = 100000

\* C11: once the Prepare Trace cell has run, the timebase range is one period
\* of the 100 kHz input signal and the timebase position is half the timebase
\* range.
C11_TimebaseIsOnePeriod ==
    AfterCell(4) =>
        /\ mso.timebase_range = period(SignalHz)
        /\ 2 * mso.timebase_position = mso.timebase_range

\* C12: a click on a state button leaves the panel in the state the button
\* names, whatever the state before (the same state included), and changes
\* neither the content of the output area nor the disabled marks of the Clear
\* and Abort buttons.
C12_ClickSetsNamedState ==
    [][\A v \in Views, b \in StateButtons, k \in BOOLEAN :
          TriggerClick(v, b, k) =>
              /\ b = minimizedButton => view'[v].state = minimized
              /\ b = dockedButton => view'[v].state = docked
              /\ b = floatedButton => view'[v].state = floated
              /\ view'[v].content = view[v].content
              /\ view'[v].clearDisabled = view[v].clearDisabled
              /\ view'[v].abortDisabled = view[v].abortDisabled]_vars

C12_Witness ==
    /\ last.op = "click"
    /\ last.button = floatedButton
    /\ last.state = floated
    /\ view[last.v].state = floated
    /\ view[last.v].content = <<"a", "b">>
    /\ ~view[last.v].clearDisabled
    /\ ~view[last.v].abortDisabled

\* C13: a panel is draggable exactly while its state is 'floated': not after
\* render(), and after a click exactly when the click was on the floated
\* button; the handler never finds a floated panel that is not draggable.
C13_DraggableIffFloated ==
    /\ \A v \in Views :
          (view[v].rendered /\ view[v].bound) =>
              (view[v].draggable <=> view[v].state = floated)
    /\ last.op = "render" => ~view[last.v].draggable
    /\ last.op = "click" =>
          (view[last.v].draggable <=> last.button = floatedButton)

C13_Witness ==
    /\ last.op = "click"
    /\ last.state = floated
    /\ last.button = minimizedButton
    /\ ~view[last.v].draggable
    /\ view[last.v].state = minimized

\* C14: a click on the floated button leaves the panel at
\* left = innerWidth - width - 15 and top = innerHeight - height - 10, a click
\* that leaves 'floated' leaves it without explicit left and top, and a panel
\* that is docked or minimized never has an explicit left or top.
C14_FloatedPosition ==
    /\ \A v \in Views :
          (view[v].rendered /\ view[v].state \in {docked, minimized}) =>
              (view[v].left = <<>> /\ view[v].top = <<>>)
    /\ (last.op = "click" /\ last.button = floatedButton) =>
          /\ view[last.v].left =
                 <<window.innerWidth - width(view[last.v]) - 15>>
          /\ view[last.v].top =
                 <<window.innerHeight - height(view[last.v]) - 10>>
    /\ (last.op = "click" /\ last.state = floated
                          /\ last.button # floatedButton) =>
          (view[last.v].left = <<>> /\ view[last.v].top = <<>>)

C14_Witness ==
    /\ last.op = "click"
    /\ last.state = minimized
    /\ last.button = floatedButton
    /\ window = InitialWindow
    /\ Len(view[last.v].content) = 2
    /\ view[last.v].left = <<585>>
    /\ view[last.v].top = <<260>>

\* C15: after a window resize a floated panel is at a left of at most
\* innerWidth - 20 and a top of at most innerHeight - 20, a coordinate that
\* was within its bound is unchanged, and the left and top of a docked or
\* minimized panel are unchanged.
C15_ResizeKeepsPanelVisible ==
    [][\A win \in Windows :
          Resize(win) =>
              \A v \in Views :
                  view[v].rendered =>
                      IF view[v].state = floated
                      THEN /\ position(view'[v]).left <= win.innerWidth - 20
                           /\ position(view'[v]).top <= win.innerHeight - 20
                           /\ position(view[v]).left <= win.innerWidth - 20
                                  => view'[v].left = view[v].left
                           /\ position(view[v]).top <= win.innerHeight - 20
                                  => view'[v].top = view[v].top
                      ELSE /\ view'[v].left = view[v].left
                           /\ view'[v].top = view[v].top]_vars

C15_Witness ==
    /\ last.op = "resize"
    /\ window.innerWidth = 300 /\ window.innerHeight = 200
    /\ view[1].state = floated /\ view[1].inDoc
    /\ view[1].left = <<280>>
    /\ view[1].top = <<180>>

\* C16: a click on Clear leaves the output area empty and the Clear button
\* marked disabled, and at any time the Clear button of a panel is marked
\* disabled exactly when its output area is empty.
C16_ClearDisabledIffEmpty ==
    /\ \A v \in Views :
          view[v].rendered =>
              (view[v].clearDisabled <=> view[v].content = <<>>)
    /\ last.op = "clear" =>
          /\ view[last.v].content = <<>>
          /\ view[last.v].clearDisabled

C16_Witness ==
    /\ last.op = "clear"
    /\ Len(last.message) = 2
    /\ view[last.v].content = <<>>
    /\ view[last.v].clearDisabled
    /\ view[last.v].state = floated

====
